---- MODULE Spec2Model ----
(***************************************************************************)
(* Model of app/main.py: Deck, Ship and Battleship.                         *)
(*                                                                         *)
(* A Ship object is identified by its position in the constructor's        *)
(* argument list (its reference); decks[s] is the `decks` list of Ship s   *)
(* and field[c] is the reference stored in Battleship.field at key c.      *)
(***************************************************************************)
EXTENDS Integers, Sequences, FiniteSets, TLC

\* Bounds of the explored inputs: a (MaxRow+1) x (MaxCol+1) board for the
\* ship endpoints and at most MaxShips ships in the constructor's list.
MaxRow == 1
MaxCol == 2
MaxShips == 2

Rows == 0..MaxRow
Cols == 0..MaxCol
Grid == Rows \X Cols
\* Coordinates no ship of the explored inputs can cover (negative, too large).
OffGrid == {<<-1, 0>>, <<MaxRow + 1, MaxCol + 1>>}
Locations == Grid \cup OffGrid
Placements == Grid \X Grid
ShipLists == UNION {[1..n -> Placements] : n \in 0..MaxShips}

NoLoc == <<>>
Outcomes == {"Miss!", "Hit!", "Sunk!"}

VARIABLES
    status,   \* "unbuilt" | "ok" | "ValueError": outcome of Battleship(ships)
    ships,    \* the list passed to Battleship.__init__
    field,    \* Battleship.field: coordinate -> Ship reference
    decks,    \* Ship reference -> Ship.decks (list of Deck records)
    loc,      \* argument of the last fire call (NoLoc before the first)
    result,   \* value returned (or exception raised) by the last fire call
    sunk,     \* Ship references whose fire has returned "Sunk!" so far
    refire,   \* TRUE iff the last fire call aimed at a deck already dead
    fired,    \* coordinates fired so far: in a one-ship volley (SpecVolley),
              \* in any sequence of shots (SpecShots)
    thread,   \* per concurrent caller: position in its fire call, argument,
              \* returned value, and whether its deck was alive when marked
    order,    \* the concurrent callers in the order of their mark steps
    interleaved  \* TRUE iff a caller marked while another was between its
                 \* mark and its scan (SpecRace)

raceVars == <<thread, order, interleaved>>

vars == <<status, ships, field, decks, loc, result, sunk, refire, fired,
          thread, order, interleaved>>

\* The two callers of the unserialized scenario.
Threads == {"a", "b"}

Idle == [pc |-> "idle", location |-> NoLoc, result |-> "none", first |-> FALSE]

----------------------------------------------------------------------------
\* Python builtins used by the source.

Min(a, b) == IF a <= b THEN a ELSE b
Max(a, b) == IF a >= b THEN a ELSE b

\* range(lo, hi) as a list.
Range(lo, hi) == [i \in 1..(hi - lo) |-> lo + i - 1]

\* dict subscript d[key]: the stored value, or 0 when the key is absent
\* (Python raises KeyError there; references are >= 1).
Subscript(d, key) == IF key \in DOMAIN d THEN d[key] ELSE 0

----------------------------------------------------------------------------
\* Deck.__init__ with the default is_alive.
Deck(row, column) == [row |-> row, column |-> column, is_alive |-> TRUE]

\* Variant of ShipInit: range(column1, column2 + 1) and range(row1, row2 + 1),
\* without min and max.
ShipInit_NoMinMax(start, end) ==
    LET row1 == start[1]
        column1 == start[2]
        row2 == end[1]
        column2 == end[2]
        columns == Range(column1, column2 + 1)
        rows == Range(row1, row2 + 1)
    IN  IF row1 = row2
        THEN [raised |-> "None",
              decks |-> [i \in DOMAIN columns |-> Deck(row1, columns[i])]]
        ELSE IF column1 = column2
        THEN [raised |-> "None",
              decks |-> [i \in DOMAIN rows |-> Deck(rows[i], column1)]]
        ELSE [raised |-> "ValueError", decks |-> <<>>]

\* Variant of ShipInit: a plain `else` in place of `elif column1 == column2`,
\* so that a diagonal pair builds a vertical ship instead of raising.
ShipInit_NoRaise(start, end) ==
    LET row1 == start[1]
        column1 == start[2]
        row2 == end[1]
        column2 == end[2]
        columns == Range(Min(column1, column2), Max(column1, column2) + 1)
        rows == Range(Min(row1, row2), Max(row1, row2) + 1)
    IN  IF row1 = row2
        THEN [raised |-> "None",
              decks |-> [i \in DOMAIN columns |-> Deck(row1, columns[i])]]
        ELSE [raised |-> "None",
              decks |-> [i \in DOMAIN rows |-> Deck(rows[i], column1)]]

\* Ship.__init__: the decks list, or the ValueError it raises.
ShipInit(start, end) ==
    LET row1 == start[1]
        column1 == start[2]
        row2 == end[1]
        column2 == end[2]
        columns == Range(Min(column1, column2), Max(column1, column2) + 1)
        rows == Range(Min(row1, row2), Max(row1, row2) + 1)
    IN  IF row1 = row2
        THEN [raised |-> "None",
              decks |-> [i \in DOMAIN columns |-> Deck(row1, columns[i])]]
        ELSE IF column1 = column2
        THEN [raised |-> "None",
              decks |-> [i \in DOMAIN rows |-> Deck(rows[i], column1)]]
        ELSE [raised |-> "ValueError", decks |-> <<>>]

\* Variant of GetDeck: `or` in place of `and` in the comparison.
GetDeck_Or(self_decks, row, column) ==
    LET found == {i \in DOMAIN self_decks :
                     self_decks[i].row = row \/ self_decks[i].column = column}
    IN  IF found = {} THEN 0
        ELSE CHOOSE i \in found : \A j \in found : i <= j

\* Ship.get_deck: index of the first deck at (row, column), 0 for None.
GetDeck(self_decks, row, column) ==
    LET found == {i \in DOMAIN self_decks :
                     self_decks[i].row = row /\ self_decks[i].column = column}
    IN  IF found = {} THEN 0
        ELSE CHOOSE i \in found : \A j \in found : i <= j

\* Variant of ShipFire: any() in place of all() in the sunk test.
ShipFire_Any(self_decks, row, column) ==
    LET deck == GetDeck(self_decks, row, column)
    IN  IF deck = 0
        THEN [result |-> "Miss!", decks |-> self_decks]
        ELSE LET marked == [self_decks EXCEPT ![deck].is_alive = FALSE]
             IN  [result |-> IF \E i \in DOMAIN marked : ~marked[i].is_alive
                             THEN "Sunk!" ELSE "Hit!",
                  decks |-> marked]

\* Variant of ShipFire: deck.is_alive = not deck.is_alive.
ShipFire_Toggle(self_decks, row, column) ==
    LET deck == GetDeck(self_decks, row, column)
    IN  IF deck = 0
        THEN [result |-> "Miss!", decks |-> self_decks]
        ELSE LET marked == [self_decks EXCEPT
                               ![deck].is_alive = ~self_decks[deck].is_alive]
             IN  [result |-> IF \A i \in DOMAIN marked : ~marked[i].is_alive
                             THEN "Sunk!" ELSE "Hit!",
                  decks |-> marked]

\* Variant of ShipFire: the final `return "Hit!"` is missing, so the call
\* returns None when the ship is not sunk.
ShipFire_NoHitReturn(self_decks, row, column) ==
    LET deck == GetDeck(self_decks, row, column)
    IN  IF deck = 0
        THEN [result |-> "Miss!", decks |-> self_decks]
        ELSE LET marked == [self_decks EXCEPT ![deck].is_alive = FALSE]
             IN  [result |-> IF \A i \in DOMAIN marked : ~marked[i].is_alive
                             THEN "Sunk!" ELSE "None",
                  decks |-> marked]

\* Ship.fire: the returned string and the decks list afterwards.
ShipFire(self_decks, row, column) ==
    LET deck == GetDeck(self_decks, row, column)
    IN  IF deck = 0
        THEN [result |-> "Miss!", decks |-> self_decks]
        ELSE LET marked == [self_decks EXCEPT ![deck].is_alive = FALSE]
             IN  [result |-> IF \A i \in DOMAIN marked : ~marked[i].is_alive
                             THEN "Sunk!" ELSE "Hit!",
                  decks |-> marked]

\* Ship.fire up to and including `deck.is_alive = False`: the index of the
\* deck found (0 for None) and the decks list afterwards.
ShipFireMark(self_decks, row, column) ==
    LET deck == GetDeck(self_decks, row, column)
    IN  IF deck = 0
        THEN [deck |-> 0, decks |-> self_decks]
        ELSE [deck |-> deck,
              decks |-> [self_decks EXCEPT ![deck].is_alive = FALSE]]

\* Variant of ShipFireScan: any() in place of all().
ShipFireScan_Any(self_decks) ==
    IF \E i \in DOMAIN self_decks : ~self_decks[i].is_alive
    THEN "Sunk!" ELSE "Hit!"

\* Ship.fire from the all() scan on: the returned string.
ShipFireScan(self_decks) ==
    IF \A i \in DOMAIN self_decks : ~self_decks[i].is_alive
    THEN "Sunk!" ELSE "Hit!"

----------------------------------------------------------------------------
\* Variant of IndexDecks: self.field.setdefault(key, ship), which keeps the
\* entry of the ship that came first.
RECURSIVE IndexDecks_FirstWins(_, _, _, _)
IndexDecks_FirstWins(self_field, ship_decks, i, ship) ==
    IF i > Len(ship_decks) THEN self_field
    ELSE IndexDecks_FirstWins(
             self_field
                 @@ (<<ship_decks[i].row, ship_decks[i].column>> :> ship),
             ship_decks, i + 1, ship)

\* Variant of IndexDecks: the loop stops one deck early (ship.decks[:-1]).
RECURSIVE IndexDecks_SkipLast(_, _, _, _)
IndexDecks_SkipLast(self_field, ship_decks, i, ship) ==
    IF i >= Len(ship_decks) THEN self_field
    ELSE IndexDecks_SkipLast(
             (<<ship_decks[i].row, ship_decks[i].column>> :> ship)
                 @@ self_field,
             ship_decks, i + 1, ship)

\* Battleship.__init__, inner loop: self.field[(deck.row, deck.column)] = ship
\* for the decks of one ship, from deck i on.
RECURSIVE IndexDecks(_, _, _, _)
IndexDecks(self_field, ship_decks, i, ship) ==
    IF i > Len(ship_decks) THEN self_field
    ELSE IndexDecks((<<ship_decks[i].row, ship_decks[i].column>> :> ship)
                        @@ self_field,
                    ship_decks, i + 1, ship)

\* Battleship.__init__, outer loop from list position i on. The exception of
\* Ship.__init__ leaves the loop with the index as filled so far.
RECURSIVE BattleshipInitFrom(_, _, _, _)
BattleshipInitFrom(list, i, self_field, heap) ==
    IF i > Len(list)
    THEN [raised |-> "None", field |-> self_field, decks |-> heap]
    ELSE LET ship == ShipInit(list[i][1], list[i][2])
         IN  IF ship.raised # "None"
             THEN [raised |-> ship.raised, field |-> self_field, decks |-> heap]
             ELSE BattleshipInitFrom(list, i + 1,
                                     IndexDecks(self_field, ship.decks, 1, i),
                                     Append(heap, ship.decks))

BattleshipInit(list) == BattleshipInitFrom(list, 1, <<>>, <<>>)

\* Variant of BattleshipFire: no `location not in self.field` test before the
\* subscript.
BattleshipFire_NoCheck(self_field, heap, location) ==
    LET row == location[1]
        col == location[2]
        ship == Subscript(self_field, location)
    IN  IF ship = 0
        THEN [result |-> "KeyError", decks |-> heap, ship |-> 0]
        ELSE LET r == ShipFire(heap[ship], row, col)
             IN  [result |-> r.result,
                  decks |-> [heap EXCEPT ![ship] = r.decks],
                  ship |-> ship]

\* Variant of BattleshipFire: ship.fire(col, row), the arguments swapped.
BattleshipFire_Swapped(self_field, heap, location) ==
    IF location \notin DOMAIN self_field
    THEN [result |-> "Miss!", decks |-> heap, ship |-> 0]
    ELSE LET row == location[1]
             col == location[2]
             ship == Subscript(self_field, location)
         IN  IF ship = 0
             THEN [result |-> "KeyError", decks |-> heap, ship |-> 0]
             ELSE LET r == ShipFire(heap[ship], col, row)
                  IN  [result |-> r.result,
                       decks |-> [heap EXCEPT ![ship] = r.decks],
                       ship |-> ship]

\* Battleship.fire: the returned string (or the exception raised), the decks
\* of all ships afterwards and the ship the shot was forwarded to (0: none).
BattleshipFire(self_field, heap, location) ==
    IF location \notin DOMAIN self_field
    THEN [result |-> "Miss!", decks |-> heap, ship |-> 0]
    ELSE LET row == location[1]
             col == location[2]
             ship == Subscript(self_field, location)
         IN  IF ship = 0
             THEN [result |-> "KeyError", decks |-> heap, ship |-> 0]
             ELSE LET r == ShipFire(heap[ship], row, col)
                  IN  [result |-> r.result,
                       decks |-> [heap EXCEPT ![ship] = r.decks],
                       ship |-> ship]

----------------------------------------------------------------------------
Init ==
    /\ status = "unbuilt"
    /\ ships = <<>>
    /\ field = <<>>
    /\ decks = <<>>
    /\ loc = NoLoc
    /\ result = "none"
    /\ sunk = {}
    /\ refire = FALSE
    /\ fired = {}
    /\ thread = [t \in Threads |-> Idle]
    /\ order = <<>>
    /\ interleaved = FALSE

\* game = Battleship(list): the caller gets the object only if __init__
\* returns; when it raises, no field is bound.
Construct(list) ==
    /\ status = "unbuilt"
    /\ LET b == BattleshipInit(list)
       IN  IF b.raised = "None"
           THEN status' = "ok" /\ field' = b.field /\ decks' = b.decks
           ELSE status' = b.raised /\ field' = <<>> /\ decks' = <<>>
    /\ ships' = list
    /\ UNCHANGED <<loc, result, sunk, refire, fired, raceVars>>

\* TRUE iff Ship s has a deck at (row, column) and that deck is dead.
DeadAt(s, row, column) ==
    LET k == GetDeck(decks[s], row, column)
    IN  k # 0 /\ ~decks[s][k].is_alive

\* game.fire(location), without the volley bookkeeping.
FireCall(location) ==
    /\ status = "ok"
    /\ LET r == BattleshipFire(field, decks, location)
       IN  /\ decks' = r.decks
           /\ result' = r.result
           /\ sunk' = IF r.result = "Sunk!" THEN sunk \cup {r.ship} ELSE sunk
           /\ refire' = (r.ship # 0 /\ DeadAt(r.ship, location[1], location[2]))
    /\ loc' = location
    /\ UNCHANGED <<status, ships, field, raceVars>>

Fire(location) == FireCall(location) /\ UNCHANGED fired

\* ship.fire(row, column) called directly on a Ship object the caller can
\* reach through game.field.
ShipFireDirect(ship, row, column) ==
    /\ status = "ok"
    /\ ship \in {field[c] : c \in DOMAIN field}
    /\ LET r == ShipFire(decks[ship], row, column)
       IN  /\ decks' = [decks EXCEPT ![ship] = r.decks]
           /\ result' = r.result
           /\ sunk' = IF r.result = "Sunk!" THEN sunk \cup {ship} ELSE sunk
           /\ refire' = DeadAt(ship, row, column)
    /\ loc' = <<row, column>>
    /\ UNCHANGED <<status, ships, field, fired, raceVars>>

\* Coordinates of the decks of Ship s.
DeckCoords(s) == {<<decks[s][k].row, decks[s][k].column>> : k \in DOMAIN decks[s]}

\* One more shot of a volley that fires once at each deck coordinate of one
\* ship, starting from the freshly built field.
VolleyFire(location) ==
    /\ location \notin fired
    /\ \E s \in DOMAIN decks : fired \cup {location} \subseteq DeckCoords(s)
    /\ FireCall(location)
    /\ fired' = fired \cup {location}

\* First step of game.fire(location) by caller t, run without a lock: the
\* membership test, the subscript and Ship.fire up to the mark. A call that
\* finds no ship or no deck returns "Miss!" in this step.
RaceMark(t, location) ==
    /\ status = "ok"
    /\ thread[t].pc = "idle"
    /\ LET ship == Subscript(field, location)
           m == ShipFireMark(decks[ship], location[1], location[2])
       IN  IF location \notin DOMAIN field \/ m.deck = 0
           THEN /\ thread' = [thread EXCEPT ![t] =
                       [pc |-> "done", location |-> location,
                        result |-> "Miss!", first |-> FALSE]]
                /\ decks' = decks
           ELSE /\ thread' = [thread EXCEPT ![t] =
                       [pc |-> "marked", location |-> location,
                        result |-> "none",
                        first |-> decks[ship][m.deck].is_alive]]
                /\ decks' = [decks EXCEPT ![ship] = m.decks]
    /\ order' = Append(order, t)
    /\ interleaved' =
          (interleaved \/ \E u \in Threads \ {t} : thread[u].pc = "marked")
    /\ UNCHANGED <<status, ships, field, loc, result, sunk, refire, fired>>

\* Second step of the call of caller t: the all() scan and the return.
RaceScan(t) ==
    /\ status = "ok"
    /\ thread[t].pc = "marked"
    /\ thread' = [thread EXCEPT
          ![t].pc = "done",
          ![t].result = ShipFireScan(decks[field[thread[t].location]])]
    /\ UNCHANGED <<status, ships, field, decks, loc, result, sunk, refire,
                   fired, order, interleaved>>

Next ==
    \/ \E list \in ShipLists : Construct(list)
    \/ \E location \in Locations : Fire(location)

Spec == Init /\ [][Next]_vars

NextDirect ==
    \/ \E list \in ShipLists : Construct(list)
    \/ \E location \in Locations : Fire(location)
    \/ \E ship \in 1..MaxShips : \E location \in Locations :
          ShipFireDirect(ship, location[1], location[2])

SpecDirect == Init /\ [][NextDirect]_vars

NextVolley ==
    \/ \E list \in ShipLists : Construct(list)
    \/ \E location \in Grid : VolleyFire(location)

SpecVolley == Init /\ [][NextVolley]_vars

\* game.fire(location), recording the coordinate in the set of those fired.
FireRecorded(location) ==
    /\ FireCall(location)
    /\ fired' = fired \cup {location}

NextShots ==
    \/ \E list \in ShipLists : Construct(list)
    \/ \E location \in Grid : FireRecorded(location)

SpecShots == Init /\ [][NextShots]_vars

NextRace ==
    \/ \E list \in ShipLists : Construct(list)
    \/ \E t \in Threads : \E location \in Locations : RaceMark(t, location)
    \/ \E t \in Threads : RaceScan(t)

SpecRace == Init /\ [][NextRace]_vars

----------------------------------------------------------------------------
TypeOK ==
    /\ status \in {"unbuilt", "ok", "ValueError"}
    /\ ships \in ShipLists
    /\ loc \in Locations \cup {NoLoc}
    /\ result \in Outcomes \cup {"none", "KeyError"}
    /\ sunk \subseteq DOMAIN decks
    /\ refire \in BOOLEAN
    /\ fired \subseteq Locations
----------------------------------------------------------------------------
\* Vocabulary of the properties.

Abs(n) == IF n >= 0 THEN n ELSE -n

\* The two endpoints differ in both row and column.
Diagonal(p) == p[1][1] # p[2][1] /\ p[1][2] # p[2][2]

AllDeckCoords == UNION {DeckCoords(s) : s \in DOMAIN decks}

\* Ships with a deck at coordinate c.
Claimants(c) == {s \in DOMAIN decks : c \in DeckCoords(s)}

AllDead(s) == \A k \in DOMAIN decks[s] : ~decks[s][k].is_alive

\* No ship later in the list has a deck on a coordinate of Ship s.
Unshadowed(s) ==
    \A j \in DOMAIN decks : j > s => DeckCoords(j) \cap DeckCoords(s) = {}

----------------------------------------------------------------------------
\* C1 (as stated): for every ship of every constructed field, overlapping or
\* not, a volley that fires once at each of its deck coordinates from the
\* fresh field returns "Hit!" for every shot but the last and "Sunk!" for the
\* last.
C1_VolleyAnyShip ==
    (status = "ok" /\ fired # {}) =>
        \A s \in DOMAIN decks :
            fired \subseteq DeckCoords(s) =>
                result = IF fired = DeckCoords(s) THEN "Sunk!" ELSE "Hit!"

\* C1 (amended): the same, for every ship none of whose deck coordinates is
\* also a deck coordinate of a ship later in the list.
C1_VolleyUnshadowedShip ==
    (status = "ok" /\ fired # {}) =>
        \A s \in DOMAIN decks :
            (Unshadowed(s) /\ fired \subseteq DeckCoords(s)) =>
                result = IF fired = DeckCoords(s) THEN "Sunk!" ELSE "Hit!"

\* A three-deck ship, overlapped only by an earlier ship, sunk by the third
\* shot of its volley.
C1_Witness ==
    /\ status = "ok"
    /\ \E s \in DOMAIN decks :
          /\ Unshadowed(s)
          /\ Len(decks[s]) = 3
          /\ fired = DeckCoords(s)
          /\ result = "Sunk!"
          /\ \E j \in DOMAIN decks : j < s /\ DeckCoords(j) \cap DeckCoords(s) # {}

----------------------------------------------------------------------------
\* C2: a fire call at a location that is no deck coordinate of any ship
\* (negative and too-large coordinates included) returns "Miss!" and leaves
\* every deck's alive flag and the index unchanged.
C2_MissChangesNothing ==
    [][(status = "ok" /\ loc' \notin AllDeckCoords) =>
          (result' = "Miss!" /\ decks' = decks /\ field' = field)]_vars

\* A miss at a negative coordinate on a field that has a dead and a live deck.
C2_Witness ==
    /\ status = "ok"
    /\ loc = <<-1, 0>>
    /\ result = "Miss!"
    /\ \E s \in DOMAIN decks : \E k \in DOMAIN decks[s] : ~decks[s][k].is_alive
    /\ \E s \in DOMAIN decks : \E k \in DOMAIN decks[s] : decks[s][k].is_alive

----------------------------------------------------------------------------
\* C3: a fire call at a coordinate whose indexed deck is already dead changes
\* no alive flag and returns "Sunk!" if every deck of the owning ship is dead
\* and "Hit!" otherwise; once a fire on a ship has returned "Sunk!", every
\* later fire at a coordinate indexed to that ship returns "Sunk!".
C3_RefireIdempotent ==
    [][(status = "ok" /\ loc' \in DOMAIN field) =>
          LET s == field[loc']
          IN  /\ DeadAt(s, loc'[1], loc'[2]) =>
                    /\ decks' = decks
                    /\ result' = IF AllDead(s) THEN "Sunk!" ELSE "Hit!"
              /\ s \in sunk => result' = "Sunk!"]_vars

\* A repeated shot at a dead deck of a ship that still has a live deck.
C3_Witness ==
    /\ status = "ok"
    /\ refire
    /\ loc \in DOMAIN field
    /\ result = "Hit!"
    /\ ~AllDead(field[loc])
    /\ sunk # {}

----------------------------------------------------------------------------
\* C4: on a constructed field every fire call, at any location, returns one
\* of "Miss!", "Hit!", "Sunk!" and raises nothing.
C4_FireAlwaysReturns ==
    status = "ok" =>
        /\ loc # NoLoc => result \in Outcomes
        /\ \A location \in Locations :
              BattleshipFire(field, decks, location).result \in Outcomes

\* Each of the three outcomes has been returned, the last one for a shot at
\* a coordinate beyond every ship.
C4_Witness ==
    /\ status = "ok"
    /\ loc = <<MaxRow + 1, MaxCol + 1>>
    /\ result = "Miss!"
    /\ sunk # {}
    /\ \E s \in DOMAIN decks : ~AllDead(s) /\ \E k \in DOMAIN decks[s] : ~decks[s][k].is_alive

----------------------------------------------------------------------------
\* C5: a Ship whose endpoints differ in both row and column is not built, the
\* constructor raises; a Battleship list holding such a pair at any position
\* raises the same error and no field, not even a partly indexed one, is
\* obtained.
C5_DiagonalRejected ==
    (status # "unbuilt" /\ \E i \in DOMAIN ships : Diagonal(ships[i])) =>
        /\ status = "ValueError"
        /\ field = <<>>
        /\ decks = <<>>
        /\ \A i \in DOMAIN ships :
              Diagonal(ships[i]) =>
                  ShipInit(ships[i][1], ships[i][2]) =
                      [raised |-> "ValueError", decks |-> <<>>]

\* The invalid pair comes after a valid ship whose decks were already indexed.
C5_Witness ==
    /\ status = "ValueError"
    /\ Len(ships) = 2
    /\ ~Diagonal(ships[1])
    /\ Diagonal(ships[2])
    /\ field = <<>>

----------------------------------------------------------------------------
\* C6: for an axis-aligned (start, end) pair in either endpoint order the
\* ship has |drow| + |dcolumn| + 1 decks, all alive, one per column from the
\* smaller to the larger column at the common row when the rows are equal,
\* otherwise one per row from the smaller to the larger row at the common
\* column, in increasing order, no two at the same coordinate.
C6_DecksOfShip ==
    (status = "ok" /\ loc = NoLoc) =>
        /\ DOMAIN decks = DOMAIN ships
        /\ \A s \in DOMAIN ships :
              LET row1 == ships[s][1][1]
                  column1 == ships[s][1][2]
                  row2 == ships[s][2][1]
                  column2 == ships[s][2][2]
                  d == decks[s]
              IN  /\ Len(d) = Abs(row1 - row2) + Abs(column1 - column2) + 1
                  /\ \A k \in 1..Len(d) :
                        /\ d[k].is_alive
                        /\ IF row1 = row2
                           THEN /\ d[k].row = row1
                                /\ d[k].column = Min(column1, column2) + k - 1
                           ELSE /\ d[k].column = column1
                                /\ d[k].row = Min(row1, row2) + k - 1
                  /\ \A k \in 1..Len(d) : \A n \in 1..Len(d) :
                        (d[k].row = d[n].row /\ d[k].column = d[n].column)
                            => k = n

\* A three-deck horizontal ship and a two-deck vertical ship, both given with
\* the larger endpoint first.
C6_Witness ==
    /\ status = "ok"
    /\ loc = NoLoc
    /\ Len(ships) = 2
    /\ ships[1] = <<<<0, 2>>, <<0, 0>>>>
    /\ Len(decks[1]) = 3
    /\ ships[2] = <<<<1, 1>>, <<0, 1>>>>
    /\ Len(decks[2]) = 2

----------------------------------------------------------------------------
\* C7: across Battleship.fire and Ship.fire calls the number of decks of a
\* ship and each deck's row and column never change, and no deck that is
\* dead becomes alive again.
C7_DecksOnlyDie ==
    [][status = "ok" =>
          /\ DOMAIN decks' = DOMAIN decks
          /\ \A s \in DOMAIN decks :
                /\ Len(decks'[s]) = Len(decks[s])
                /\ \A k \in DOMAIN decks[s] :
                      /\ decks'[s][k].row = decks[s][k].row
                      /\ decks'[s][k].column = decks[s][k].column
                      /\ decks'[s][k].is_alive => decks[s][k].is_alive]_vars

\* A dead deck has just been fired at again, in a fleet where a deck that the
\* index does not point to was killed by a direct Ship.fire.
C7_Witness ==
    /\ status = "ok"
    /\ refire
    /\ \E s \in DOMAIN decks : \E k \in DOMAIN decks[s] :
          /\ ~decks[s][k].is_alive
          /\ field[<<decks[s][k].row, decks[s][k].column>>] # s
    /\ \E s \in DOMAIN decks : \E k \in DOMAIN decks[s] : decks[s][k].is_alive

----------------------------------------------------------------------------
\* C8: on a constructed field, overlapping ships included, every key of the
\* index maps to a ship with a deck at exactly that coordinate, the key set
\* is the union of all ships' deck coordinates, and no fire call adds,
\* removes or remaps an entry.
C8_IndexConsistent ==
    /\ [](status = "ok" =>
             /\ \A c \in DOMAIN field :
                   field[c] \in DOMAIN decks /\ c \in DeckCoords(field[c])
             /\ DOMAIN field = AllDeckCoords)
    /\ [][status = "ok" => field' = field]_vars

\* Two overlapping ships, one of them sunk, both still indexed.
C8_Witness ==
    /\ status = "ok"
    /\ sunk # {}
    /\ \E c \in DOMAIN field : Cardinality(Claimants(c)) = 2
    /\ \A s \in DOMAIN decks : \E c \in DOMAIN field : field[c] = s
    /\ \E s \in sunk : \A c \in DeckCoords(s) : field[c] = s

----------------------------------------------------------------------------
\* C9: a fire call at an occupied coordinate sets the alive flag of the deck
\* at that coordinate of the ship indexed there to false and changes no
\* other deck of that ship nor any deck of another ship; a fire call at an
\* unoccupied coordinate changes no deck.
C9_OneDeckPerShot ==
    [][status = "ok" =>
          /\ DOMAIN decks' = DOMAIN decks
          /\ \A s \in DOMAIN decks :
                /\ DOMAIN decks'[s] = DOMAIN decks[s]
                /\ \A k \in DOMAIN decks[s] :
                      decks'[s][k].is_alive =
                          IF /\ loc' \in DOMAIN field
                             /\ s = field[loc']
                             /\ <<decks[s][k].row, decks[s][k].column>> = loc'
                          THEN FALSE
                          ELSE decks[s][k].is_alive]_vars

\* A first shot at the middle deck of a three-deck ship: that deck is dead,
\* its two neighbours are alive.
C9_Witness ==
    /\ status = "ok"
    /\ ~refire
    /\ loc \in DOMAIN field
    /\ LET d == decks[field[loc]]
       IN  /\ Len(d) = 3
           /\ loc = <<d[2].row, d[2].column>>
           /\ d[1].is_alive /\ ~d[2].is_alive /\ d[3].is_alive

----------------------------------------------------------------------------
\* C10: construction from axis-aligned ships that overlap does not fail; a
\* coordinate claimed by two ships is indexed to the later one, and a fire at
\* it kills the later ship's deck there while the earlier ship's own deck at
\* that coordinate stays alive.
C10_LastShipWins ==
    (status # "unbuilt" /\ \A i \in DOMAIN ships : ~Diagonal(ships[i])) =>
        /\ status = "ok"
        /\ \A c \in AllDeckCoords :
              LET last == CHOOSE j \in Claimants(c) :
                              \A i \in Claimants(c) : i <= j
              IN  /\ c \in DOMAIN field
                  /\ field[c] = last
                  /\ \A i \in Claimants(c) \ {last} :
                        decks[i][GetDeck(decks[i], c[1], c[2])].is_alive
                  /\ loc = c => DeadAt(last, c[1], c[2])

\* The contested coordinate has just been fired at: the later ship's deck is
\* dead, the earlier ship's deck there is alive.
C10_Witness ==
    /\ status = "ok"
    /\ loc \in DOMAIN field
    /\ Claimants(loc) = {1, 2}
    /\ field[loc] = 2
    /\ DeadAt(2, loc[1], loc[2])
    /\ decks[1][GetDeck(decks[1], loc[1], loc[2])].is_alive
    /\ Len(decks[1]) > 1

----------------------------------------------------------------------------
\* Vocabulary of the concurrency property.

AllDone == \A t \in Threads : thread[t].pc = "done"

\* The values the callers' fire calls returned.
Returned == [t \in Threads |-> thread[t].result]

\* The decks as construction left them (no shot precedes the two calls).
FreshDecks == BattleshipInit(ships).decks

\* The orders in which the callers' calls can be run one after the other.
SerialOrders ==
    {p \in [1..Cardinality(Threads) -> Threads] :
        \A i, j \in DOMAIN p : p[i] = p[j] => i = j}

\* The values returned when the callers' calls run whole, one after the
\* other, in the order seq, starting from the decks heap.
RECURSIVE SerialRun(_, _)
SerialRun(seq, heap) ==
    IF seq = <<>> THEN <<>>
    ELSE LET r == BattleshipFire(field, heap, thread[Head(seq)].location)
         IN  (Head(seq) :> r.result) @@ SerialRun(Tail(seq), r.decks)

\* Callers whose shot was the first at its deck, aimed at Ship s, and
\* returned "Sunk!".
FirstSinkers(s) ==
    {t \in Threads : /\ thread[t].first
                     /\ field[thread[t].location] = s
                     /\ thread[t].result = "Sunk!"}

\* C11: Ship.fire's mark and its all-dead scan are two steps. When the two
\* calls are serialized (neither marks between the other's mark and scan)
\* the returned values are those of the sequential execution in that order
\* and, per ship, exactly one first-time shot returns "Sunk!" if the ship
\* ends with all decks dead and none otherwise. (The unserialized
\* interleaving whose values match no serial execution is C11_Witness.)
C11_SerializedMatchesSequential ==
    (status = "ok" /\ AllDone /\ ~interleaved) =>
        /\ Returned = SerialRun(order, FreshDecks)
        /\ \A s \in DOMAIN decks :
              Cardinality(FirstSinkers(s)) = IF AllDead(s) THEN 1 ELSE 0

\* Two unserialized shots at the last two live decks of one ship: both
\* return "Sunk!", which no serial order of the two calls returns.
C11_Witness ==
    /\ status = "ok"
    /\ AllDone
    /\ interleaved
    /\ \A t \in Threads : thread[t].result = "Sunk!" /\ thread[t].first
    /\ \A t, u \in Threads :
          /\ field[thread[t].location] = field[thread[u].location]
          /\ t # u => thread[t].location # thread[u].location
    /\ \A p \in SerialOrders : Returned # SerialRun(p, FreshDecks)

----------------------------------------------------------------------------
\* C12: Battleship.fire returns "Miss!" exactly when the location is no key
\* of the index; at an indexed location it returns what the indexed ship's
\* Ship.fire returns, "Sunk!" exactly when all decks of that ship are dead
\* after the shot and "Hit!" otherwise; the indexed ship always has a deck
\* at the key, so Ship.fire's "Miss!" branch is never taken through the
\* field.
C12_ResultCharacterised ==
    status = "ok" =>
        /\ \A c \in DOMAIN field : GetDeck(decks[field[c]], c[1], c[2]) # 0
        /\ loc # NoLoc =>
              /\ result = "Miss!" <=> loc \notin DOMAIN field
              /\ loc \in DOMAIN field =>
                    /\ result = IF AllDead(field[loc]) THEN "Sunk!" ELSE "Hit!"
                    /\ result = ShipFire(decks[field[loc]], loc[1], loc[2]).result

\* "Sunk!" at a coordinate two ships claim, decided by the indexed ship alone:
\* the other claimant is not all dead.
C12_Witness ==
    /\ status = "ok"
    /\ loc \in DOMAIN field
    /\ result = "Sunk!"
    /\ loc[1] # loc[2]
    /\ \E s \in Claimants(loc) : s # field[loc] /\ ~AllDead(s)

----------------------------------------------------------------------------
\* C13: a ship with a deck coordinate that a later ship also claims is never
\* sunk through Battleship.fire: its decks are never all dead, no fire on it
\* has returned "Sunk!", and every fire at a coordinate still indexed to it
\* returns "Hit!".
C13_ShadowedNeverSunk ==
    status = "ok" =>
        \A s \in DOMAIN decks :
            ~Unshadowed(s) =>
                /\ ~AllDead(s)
                /\ s \notin sunk
                /\ (loc \in DOMAIN field /\ field[loc] = s) => result = "Hit!"

\* Every deck of the shadowed ship that the index still points to is dead
\* and the last shot, a repeated one at such a deck, returned "Hit!".
C13_Witness ==
    /\ status = "ok"
    /\ refire
    /\ loc \in DOMAIN field
    /\ result = "Hit!"
    /\ LET s == field[loc]
       IN  /\ ~Unshadowed(s)
           /\ \A c \in DeckCoords(s) : field[c] = s => DeadAt(s, c[1], c[2])
           /\ Cardinality({c \in DeckCoords(s) : field[c] = s}) = 2

----------------------------------------------------------------------------
\* The outcome of a fire at location after shots at the coordinates in F, in
\* any order and with any repetitions, as a function of the set F alone.
OutcomeAfter(F, location) ==
    IF location \notin DOMAIN field THEN "Miss!"
    ELSE IF \A c \in DeckCoords(field[location]) :
                field[c] = field[location] /\ c \in F \cup {location}
         THEN "Sunk!" ELSE "Hit!"

\* C14: shots commute. After any sequence of Battleship.fire calls the alive
\* flag of every deck, and the outcome of a further fire at any coordinate,
\* are determined by the set of coordinates fired at (a deck is dead exactly
\* when its coordinate was fired at and is indexed to its ship), so two
\* sequences over the same set, in any order and with any repetitions, leave
\* identical flags and identical next outcomes.
C14_ShotsCommute ==
    status = "ok" =>
        /\ \A s \in DOMAIN decks : \A k \in DOMAIN decks[s] :
              LET c == <<decks[s][k].row, decks[s][k].column>>
              IN  decks[s][k].is_alive = ~(c \in fired /\ field[c] = s)
        /\ \A location \in Locations :
              BattleshipFire(field, decks, location).result =
                  OutcomeAfter(fired, location)

\* Three coordinates fired at, one of them twice and one of them a miss, with
\* dead decks on two ships.
C14_Witness ==
    /\ status = "ok"
    /\ refire
    /\ Cardinality(fired) = 3
    /\ fired \ DOMAIN field # {}
    /\ \A s \in DOMAIN decks : \E k \in DOMAIN decks[s] : ~decks[s][k].is_alive
    /\ Len(decks) = 2

====
